---- MODULE Spec2Model ----
(***************************************************************************)
(* The token-indexed PDF registry of e_factura_sunat.                      *)
(*                                                                         *)
(* Two builds of the server are in the repository and both are modelled:   *)
(*   backend = "local"  src/server.js (lines 1-418): PDFs and QR images on *)
(*                      the local disk, metadata.json as the only index;   *)
(*   backend = "s3"     src/unnamed/part_000: PDFs and QR images in an S3  *)
(*                      bucket, metadata.json plus one tokens/<token>.json *)
(*                      object per entry (the remote mirror).              *)
(* A third program, the older server that follows the first in            *)
(* src/server.js (lines 420-524), is backend = "legacy": uploads only.     *)
(* A behaviour fixes the build and the configured TTL in its first state.  *)
(*                                                                         *)
(* Node runs one handler at a time and switches handlers only at an await, *)
(* so every action below is the code between two awaits of one handler.    *)
(* An awaited S3 call takes effect in the step that resumes its caller.    *)
(*                                                                         *)
(* Spec        requests are served one at a time (a handler with awaits is *)
(*             finished before the next one that awaits begins), and up to *)
(*             MaxFaults storage calls fail;                               *)
(* SpecCreate  upload handlers overlap, up to MaxProcs of them, and no     *)
(*             storage call fails;                                         *)
(* SpecPurge   uploads and purges of part_000 overlap, no call fails;      *)
(* SpecRead    as Spec without faults, started on a metadata.json that is  *)
(*             absent, empty or not parseable;                             *)
(* SpecWrite   fs.writeFileSync on metadata.json step by step, and the     *)
(*             process stopped inside it;                                  *)
(* SpecLegacy  the second program of server.js;                            *)
(* SpecPaths   the paths removeByToken, purgeExpired and /view of          *)
(*             server.js hand to the filesystem, for every stored name;    *)
(* SpecAdmin   requireAdmin for every configuration and header;           *)
(* SpecShutdown the signal handlers, server.close and the 5 s timer;       *)
(* SpecTimer   uploads, the clock and the purge that setInterval keeps     *)
(*             starting;                                                   *)
(* SpecRace    uploads and deletes of part_000 overlap, no call fails;     *)
(* SpecReindex uploads and /admin/reindex of part_000 overlap, and up to   *)
(*             MaxFaults storage calls fail;                               *)
(* SpecStatic  uploads, /view and the /files mount of uploadDir.           *)
(*                                                                         *)
(* One clock serves Date.now() in file names and in createdAt/expiresAt:   *)
(* a tick is the millisecond of a file name, and the TTL is counted in     *)
(* ticks. nanoid(60) is a counter: a token is never issued twice. The      *)
(* purge loop of part_000 visits the expired entries in token order. A     *)
(* handler of part_000 whose awaited call throws ends there; its response  *)
(* is recorded with status 500. The limits of s3ListTokenEntries (500 for  *)
(* the listings, 1000 for reindex) are scaled to ListLimit and             *)
(* ReindexLimit records, and the mirror is listed in token order.         *)
(***************************************************************************)
EXTENDS Integers, Sequences, FiniteSets, TLC

\* ------------------------------------------------------------- bounds
MaxTime == 2      \* the clock stops here
MaxTokens == 2    \* tokens nanoid may still hand out
MaxProcs == 2     \* request handlers in flight at once
MaxFaults == 1    \* storage calls that may fail in one behaviour
TTLPos == 1       \* the positive TTL, in clock ticks
MaxSegments == 3  \* segments of a stored filename
MAX_FILE_BYTES == 1  \* the configured size limit, in the unit of file.size
MaxConns == 3     \* connections open at once
GraceTicks == 3   \* the 5 seconds of shutdown(), in ticks
MaxChars == 2     \* characters of a configured credential
MaxHeaderChars == 4  \* characters of the text a Basic header carries
ListLimit == 1    \* the 500 of s3ListTokenEntries(500), in records
ReindexLimit == 1 \* the 1000 of s3ListTokenEntries(1000), in records
MaxMinted == 1    \* tokens reindex may mint beyond MaxTokens

Tokens == 1..MaxTokens
Times == 0..MaxTime
\* TOKEN_TTL_DAYS as configured: negative, zero, positive.
TTLs == {0 - 1, 0, TTLPos}
Backends == {"local", "s3"}

\* The uploads a client may send: multer's file object without its bytes.
Files ==
  { [originalname |-> "a.pdf", mimetype |-> "application/pdf", size |-> 1],
    [originalname |-> "c.PDF", mimetype |-> "application/octet-stream", size |-> 1],
    [originalname |-> "b.txt", mimetype |-> "text/plain", size |-> 1],
    [originalname |-> "big.pdf", mimetype |-> "application/pdf",
     size |-> MAX_FILE_BYTES + 1] }

\* The bytes of the n-th upload request: no two requests carry the same bytes.
bufferOf(n) == << "pdf", n >>

\* A JSON null, and a value that is present: Date.parse(x || "") is finite
\* exactly for Some(t).
Null == << >>
Some(x) == << x >>

VARIABLES
  backend,    \* which build runs
  ttl,        \* TOKEN_TTL_DAYS, in clock ticks
  now,        \* Date.now()
  metaFile,   \* the parsed content of uploads/metadata.json
  pdfStore,   \* stored PDF blobs by filename: the disk (local) or the bucket (s3)
  qrStore,    \* the filenames whose QR image is stored
  mirror,     \* the bucket's tokens/<token>.json objects, by token
  procs,      \* the handlers in flight, in order of arrival
  load,       \* how many handlers the clients keep in flight at once
  nextToken,  \* the next token nanoid hands out
  faults,     \* storage calls that have failed so far
  uploaded,   \* history: the bytes of each upload answered with its token
  deletedOk,  \* history: the tokens a Delete has answered Ok for
  resp,       \* the response the last step sent, if it sent one
  process     \* the process: its listener, its open connections, its shutdown

vars == << backend, ttl, load, now, metaFile, pdfStore, qrStore, mirror, procs,
           nextToken, faults, uploaded, deletedOk, resp, process >>

\* ------------------------------------------------------------ helpers
EmptyFn == [x \in {} |-> x]
Put(f, k, v) == [x \in DOMAIN f \cup {k} |-> IF x = k THEN v ELSE f[x]]
Drop(f, k) == [x \in DOMAIN f \ {k} |-> f[x]]
DropAll(f, ks) == [x \in DOMAIN f \ ks |-> f[x]]
RemoveAt(s, i) == SubSeq(s, 1, i - 1) \o SubSeq(s, i + 1, Len(s))
Min(S) == CHOOSE x \in S : \A y \in S : x <= y
NoResp == [op |-> "none"]
ProcIds == DOMAIN procs
CanStart == Len(procs) < load
At(p, kind, pc) == procs[p].kind = kind /\ procs[p].pc = pc

\* The process after app.listen: the listener is open, nobody is connected, no
\* signal has come. `since` counts the time since shutdown() armed its timer.
Running == [state |-> "running", listening |-> TRUE, conns |-> 0, since |-> 0]

EmptyMeta == [byFile |-> EmptyFn, byToken |-> EmptyFn]

\* What metadata.json can hold besides a document with both indices: nothing
\* (the file is absent, readFileSync throws), text JSON.parse throws on, or no
\* text at all, which parses as {}: an object without fields.
BadDocuments == {[unreadable |-> "ENOENT"], [unreadable |-> "SyntaxError"], EmptyFn}

\* A read that returns what is in the file as it is: no catch, no defaults.
readMetadataRaw == metaFile

\* readMetadata: the parsed document spread over the two default empty
\* indices; the catch returns the empty indices when the read or the parse throws.
readMetadata ==
  IF "unreadable" \in DOMAIN metaFile THEN EmptyMeta
  ELSE [byFile |-> IF "byFile" \in DOMAIN metaFile THEN metaFile.byFile ELSE EmptyFn,
        byToken |-> IF "byToken" \in DOMAIN metaFile THEN metaFile.byToken ELSE EmptyFn]

\* writeMetadata(data): the document that replaces metadata.json.
writeMetadata(data) == [byFile |-> data.byFile, byToken |-> data.byToken]

\* `${Date.now()}-${file.originalname}`: the digits before the first '-' are the
\* time, the rest is the name, so the string is this pair.
uniqueName(t, originalname) == << t, originalname >>

\* fileFilter: a PDF by declared type or by suffix, whatever the case.
EndsWithPdf(name) == name \in {"a.pdf", "c.PDF", "big.pdf"}
fileFilter(file) == file.mimetype = "application/pdf" \/ EndsWithPdf(file.originalname)

\* multer({ storage, limits: { fileSize: MAX_FILE_BYTES }, fileFilter }): the
\* files it lets through to the handler.
upload(file) == fileFilter(file) /\ file.size <= MAX_FILE_BYTES

\* Number.isFinite(Date.parse(e.expiresAt || "")) && now > exp
isExpired(e, t) == e.expiresAt # Null /\ t > e.expiresAt[1]

\* server.js: expiresAt = createdAt + TOKEN_TTL_DAYS days, whatever the sign.
expiresAtLocal(createdAt) == Some(createdAt + ttl)

\* part_000: ttlDays > 0 ? createdAt + ttlDays days : null
expiresAtS3(createdAt) == IF ttl > 0 THEN Some(createdAt + ttl) ELSE Null

\* A removal that forgets the byFile index.
removeTokenOnly(meta, token, fname) ==
  [byFile |-> meta.byFile, byToken |-> Drop(meta.byToken, token)]

\* delete meta.byToken[token]; delete meta.byFile[filename]
removeEntry(meta, token, fname) ==
  [byFile |-> Drop(meta.byFile, fname), byToken |-> Drop(meta.byToken, token)]

\* A purge that takes an entry as expired from the instant of its expiresAt on.
expiredTokensInclusive(meta, t) ==
  {k \in DOMAIN meta.byToken :
     meta.byToken[k].expiresAt # Null /\ t >= meta.byToken[k].expiresAt[1]}

\* The tokens purgeExpired finds expired in `meta` at time t.
expiredTokens(meta, t) == {k \in DOMAIN meta.byToken : isExpired(meta.byToken[k], t)}

\* The filenames of a set of tokens of `meta`.
filenamesOf(meta, toks) == {meta.byToken[k].filename : k \in toks}

\* ----------------------------------------------------------- start
\* The process has started on an empty uploads directory: metadata.json was
\* written with two empty indices and the purge at start found nothing.
Started ==
  /\ backend \in Backends
  /\ ttl \in TTLs
  /\ now = 0
  /\ metaFile = EmptyMeta
  /\ pdfStore = EmptyFn
  /\ qrStore = {}
  /\ mirror = EmptyFn
  /\ procs = << >>
  /\ nextToken = 1
  /\ uploaded = EmptyFn
  /\ deletedOk = {}
  /\ resp = NoResp
  /\ process = Running

\* One request at a time; storage calls may fail.
Init == Started /\ load = 1 /\ faults = 0

\* Requests overlap; no storage call fails.
InitConc == Started /\ load = MaxProcs /\ faults = MaxFaults

\* The clock advances.
Tick ==
  /\ now < MaxTime
  /\ now' = now + 1
  /\ resp' = NoResp
  /\ UNCHANGED << process, backend, ttl, load, metaFile, pdfStore, qrStore, mirror, procs,
                  nextToken, faults, uploaded, deletedOk >>

\* POST /upload, rejected by fileFilter or cut off at the size limit (multer
\* removes what it had written): the error handler answers 400.
UploadRejected(file) ==
  /\ ~upload(file)
  /\ resp' = [op |-> "upload", status |-> 400, file |-> file]
  /\ UNCHANGED << process, backend, ttl, load, now, metaFile, pdfStore, qrStore, mirror, procs,
                  nextToken, faults, uploaded, deletedOk >>

\* ------------------------------------------------ server.js (local)
\* The uploads multer has stored whose handler has not run yet.
pendingUploads == {p \in ProcIds : At(p, "upload", "handler")}

\* multer.diskStorage: names the file and writes it under uploads/.
LocalMulter(file) ==
  /\ backend = "local"
  /\ CanStart
  /\ upload(file)
  /\ nextToken + Cardinality(pendingUploads) <= MaxTokens
  /\ LET fname == uniqueName(now, file.originalname)
         buffer == bufferOf(nextToken + Cardinality(pendingUploads))
     IN
       /\ pdfStore' = Put(pdfStore, fname, buffer)
       /\ procs' = Append(procs,
            [kind |-> "upload", pc |-> "handler", file |-> file, buffer |-> buffer,
             filename |-> fname])
  /\ resp' = NoResp
  /\ UNCHANGED << process, backend, ttl, load, now, metaFile, qrStore, mirror,
                  nextToken, faults, uploaded, deletedOk >>

\* The two records the local upload handler stores for one upload.
localByFileEntry(token, file, createdAt) ==
  [token |-> token, originalName |-> file.originalname, size |-> file.size,
   mime |-> file.mimetype, createdAt |-> createdAt,
   expiresAt |-> expiresAtLocal(createdAt)]
localByTokenEntry(fname, file, createdAt) ==
  [filename |-> fname, originalName |-> file.originalname, size |-> file.size,
   mime |-> file.mimetype, createdAt |-> createdAt,
   expiresAt |-> expiresAtLocal(createdAt)]

\* app.post("/upload") up to its await: read, add to both indices, write.
LocalUploadHandler(p) ==
  /\ backend = "local"
  /\ At(p, "upload", "handler")
  /\ LET meta == readMetadata
         token == nextToken
         file == procs[p].file
         fname == procs[p].filename
         meta2 == [byFile |-> Put(meta.byFile, fname, localByFileEntry(token, file, now)),
                   byToken |-> Put(meta.byToken, token, localByTokenEntry(fname, file, now))]
     IN
       /\ metaFile' = writeMetadata(meta2)
       /\ nextToken' = nextToken + 1
       /\ procs' = [procs EXCEPT ![p] =
            [kind |-> "upload", pc |-> "qr", token |-> token, filename |-> fname,
             buffer |-> procs[p].buffer]]
  /\ resp' = NoResp
  /\ UNCHANGED << process, backend, ttl, load, now, pdfStore, qrStore, mirror, faults,
                  uploaded, deletedOk >>

\* An upload that takes its entry back when the QR image cannot be written.
LocalUploadQrRollback(p) ==
  /\ backend = "local"
  /\ At(p, "upload", "qr")
  /\ \/ /\ qrStore' = qrStore \cup {procs[p].filename}
        /\ resp' = [op |-> "upload", status |-> 200, token |-> procs[p].token]
        /\ uploaded' = Put(uploaded, procs[p].token, procs[p].buffer)
        /\ UNCHANGED << faults, metaFile >>
     \/ /\ faults < MaxFaults
        /\ faults' = faults + 1
        /\ resp' = [op |-> "upload", status |-> 500, token |-> procs[p].token,
                    stage |-> procs[p].pc]
        /\ metaFile' = writeMetadata(
             removeEntry(readMetadata, procs[p].token, procs[p].filename))
        /\ UNCHANGED << qrStore, uploaded >>
  /\ procs' = RemoveAt(procs, p)
  /\ UNCHANGED << process, backend, ttl, load, now, pdfStore, mirror, nextToken, deletedOk >>

\* await QRCode.toFile(qrPath, viewUrl): the image is written and the page sent
\* (200), or the call throws and the handler ends without a page (500 here).
LocalUploadQr(p) ==
  /\ backend = "local"
  /\ At(p, "upload", "qr")
  /\ \/ /\ qrStore' = qrStore \cup {procs[p].filename}
        /\ resp' = [op |-> "upload", status |-> 200, token |-> procs[p].token]
        /\ uploaded' = Put(uploaded, procs[p].token, procs[p].buffer)
        /\ UNCHANGED faults
     \/ /\ faults < MaxFaults
        /\ faults' = faults + 1
        /\ resp' = [op |-> "upload", status |-> 500, token |-> procs[p].token,
                    stage |-> procs[p].pc]
        /\ UNCHANGED << qrStore, uploaded >>
  /\ procs' = RemoveAt(procs, p)
  /\ UNCHANGED << process, backend, ttl, load, now, metaFile, pdfStore, mirror,
                  nextToken, deletedOk >>

\* What app.get("/view/:token") of server.js answers from `meta` at time t.
viewLocal(meta, token, t) ==
  IF token \notin DOMAIN meta.byToken
    THEN [status |-> 404, body |-> "invalid"]
  ELSE IF isExpired(meta.byToken[token], t)
    THEN [status |-> 410, body |-> "expired"]
  ELSE IF meta.byToken[token].filename \notin DOMAIN pdfStore
    THEN [status |-> 404, body |-> "gone"]
  ELSE [status |-> 200, body |-> pdfStore[meta.byToken[token].filename]]

\* A resolver that purges on read: an expired entry leaves the indices when it
\* is resolved.
LocalViewLazyPurge(token) ==
  /\ backend = "local"
  /\ LET meta == readMetadata
         v == viewLocal(meta, token, now)
     IN
       /\ resp' = [op |-> "view", token |-> token, status |-> v.status, body |-> v.body]
       /\ metaFile' = IF v.status = 410
                        THEN [byFile |-> Drop(meta.byFile, meta.byToken[token].filename),
                              byToken |-> Drop(meta.byToken, token)]
                        ELSE metaFile
  /\ UNCHANGED << process, backend, ttl, load, now, pdfStore, qrStore, mirror, procs,
                  nextToken, faults, uploaded, deletedOk >>

\* app.get("/view/:token") of server.js: it answers and writes nothing.
LocalView(token) ==
  /\ backend = "local"
  /\ LET v == viewLocal(readMetadata, token, now) IN
       resp' = [op |-> "view", token |-> token, status |-> v.status, body |-> v.body]
  /\ UNCHANGED << process, backend, ttl, load, now, metaFile, pdfStore, qrStore, mirror, procs,
                  nextToken, faults, uploaded, deletedOk >>

\* listTokens of server.js: one row per entry of byToken.
listTokensLocal(meta) == DOMAIN meta.byToken

\* The tokens of a set, ascending.
RECURSIVE ascending(_)
ascending(S) == IF S = {} THEN << >> ELSE << Min(S) >> \o ascending(S \ {Min(S)})

\* Object.entries(meta.byToken): the entries in the order of their insertion.
\* A handler draws its token and reads its snapshot in one step and appends its
\* entry to that snapshot, so the order of insertion is the order of the tokens.
entriesOf(byToken) ==
  [i \in 1..Cardinality(DOMAIN byToken) |->
     [token |-> ascending(DOMAIN byToken)[i],
      createdAt |-> byToken[ascending(DOMAIN byToken)[i]].createdAt]]

\* One step of Array.prototype.sort((a, b) => Date.parse(b.createdAt) -
\* Date.parse(a.createdAt)), which is stable: the row goes behind the rows that
\* are as new or newer.
insertByCreatedAt(sorted, e) ==
  LET k == Cardinality({i \in 1..Len(sorted) : sorted[i].createdAt >= e.createdAt})
  IN SubSeq(sorted, 1, k) \o << e >> \o SubSeq(sorted, k + 1, Len(sorted))

RECURSIVE sortByCreatedAt(_)
sortByCreatedAt(rows) ==
  IF rows = << >> THEN << >>
  ELSE insertByCreatedAt(sortByCreatedAt(SubSeq(rows, 1, Len(rows) - 1)), rows[Len(rows)])

\* The rows of listTokens of server.js, top to bottom: Object.entries(...).map.
listRowsLocal(meta) == entriesOf(meta.byToken)

\* The rows of app.get("/manage") of server.js: Object.entries(...).sort(...).map.
manageRowsLocal(meta) == sortByCreatedAt(entriesOf(meta.byToken))

\* app.get("/tokens") of server.js.
LocalList ==
  /\ backend = "local"
  /\ resp' = [op |-> "list", tokens |-> listTokensLocal(readMetadata),
              rows |-> listRowsLocal(readMetadata)]
  /\ UNCHANGED << process, backend, ttl, load, now, metaFile, pdfStore, qrStore, mirror, procs,
                  nextToken, faults, uploaded, deletedOk >>

\* app.get("/manage") of server.js.
LocalManage ==
  /\ backend = "local"
  /\ resp' = [op |-> "manage", rows |-> manageRowsLocal(readMetadata)]
  /\ UNCHANGED << process, backend, ttl, load, now, metaFile, pdfStore, qrStore, mirror, procs,
                  nextToken, faults, uploaded, deletedOk >>

\* removeByToken of server.js, called by app.get("/delete/:token"). The unlinks
\* sit in one try block: existsSync skips a missing file, and an unlink that
\* throws skips what is left of the block. The metadata is removed either way.
LocalDelete(token) ==
  /\ backend = "local"
  /\ LET meta == readMetadata IN
       IF token \notin DOMAIN meta.byToken
         THEN /\ resp' = [op |-> "delete", token |-> token, status |-> 404]
              /\ UNCHANGED << metaFile, pdfStore, qrStore, deletedOk, faults >>
         ELSE LET fname == meta.byToken[token].filename IN
              /\ \/ /\ pdfStore' = Drop(pdfStore, fname)
                    /\ qrStore' = qrStore \ {fname}
                    /\ UNCHANGED faults
                 \/ /\ faults < MaxFaults
                    /\ fname \in DOMAIN pdfStore
                    /\ faults' = faults + 1
                    /\ UNCHANGED << pdfStore, qrStore >>
              /\ metaFile' = writeMetadata(removeEntry(meta, token, fname))
              /\ deletedOk' = deletedOk \cup {token}
              /\ resp' = [op |-> "delete", token |-> token, status |-> 302]
  /\ UNCHANGED << process, backend, ttl, load, now, mirror, procs, nextToken, uploaded >>

\* A purge loop that removes nothing from the indices.
purgeMetaKeep(meta, toks) == meta

\* The indices after the purge loop has removed `toks`.
purgeMeta(meta, toks) ==
  [byFile |-> DropAll(meta.byFile, filenamesOf(meta, toks)),
   byToken |-> DropAll(meta.byToken, toks)]

\* purgeExpired of server.js: at start, on the timer and from /admin/purge.
\* Each unlink has a try of its own: one that throws leaves its file behind.
LocalPurge ==
  /\ backend = "local"
  /\ LET meta == readMetadata
         gone == expiredTokens(meta, now)
         files == filenamesOf(meta, gone)
     IN
       /\ \/ /\ pdfStore' = DropAll(pdfStore, files)
             /\ UNCHANGED faults
          \/ /\ faults < MaxFaults
             /\ faults' = faults + 1
             /\ \E f \in files \cap DOMAIN pdfStore :
                  pdfStore' = DropAll(pdfStore, files \ {f})
       /\ qrStore' = qrStore \ files
       /\ metaFile' = writeMetadata(purgeMeta(meta, gone))
       /\ resp' = [op |-> "purge", removed |-> Cardinality(gone), at |-> now]
  /\ UNCHANGED << process, backend, ttl, load, now, mirror, procs, nextToken, uploaded, deletedOk >>

LocalNext ==
  \/ \E file \in Files : LocalMulter(file)
  \/ \E p \in ProcIds : LocalUploadHandler(p)
  \/ \E p \in ProcIds : LocalUploadQr(p)
  \/ \E token \in Tokens : LocalView(token)
  \/ LocalList
  \/ LocalManage
  \/ \E token \in Tokens : LocalDelete(token)
  \/ LocalPurge

\* ------------------------------------------- part_000 (S3 bucket)
\* The entry app.post("/upload") of part_000 stores in both indices and in the
\* mirror. The bucket's prefix is fixed, so s3Key and qrS3Key are named by the
\* filename; qrS3Key is Null until the QR image is stored.
s3Entry(token, file, fname, createdAt, qr) ==
  [token |-> token, originalName |-> file.originalname, size |-> file.size,
   mime |-> file.mimetype, createdAt |-> createdAt,
   expiresAt |-> expiresAtS3(createdAt), s3Key |-> fname, filename |-> fname,
   qrS3Key |-> qr]

\* meta.byFile[uniqueName] = {...entry}; meta.byToken[token] = {...entry}
addEntry(meta, e) ==
  [byFile |-> Put(meta.byFile, e.filename, e), byToken |-> Put(meta.byToken, e.token, e)]

\* meta.byFile[uniqueName].qrS3Key = qrS3Key; meta.byToken[token].qrS3Key = qrS3Key
setQrKey(meta, token, fname) ==
  [byFile |-> [meta.byFile EXCEPT ![fname].qrS3Key = Some(fname)],
   byToken |-> [meta.byToken EXCEPT ![token].qrS3Key = Some(fname)]]

\* An awaited call of upload handler p throws: the handler ends there and sends
\* no page (500 here).
S3Throws(p) ==
  /\ faults < MaxFaults
  /\ faults' = faults + 1
  /\ procs' = RemoveAt(procs, p)
  /\ resp' = [op |-> "upload", status |-> 500, token |-> procs[p].token,
              stage |-> procs[p].pc]

\* A best-effort storage call inside try/catch: it is done, or it failed and
\* the error was swallowed.
BestEffort(done, failed) ==
  \/ done /\ UNCHANGED faults
  \/ faults < MaxFaults /\ faults' = faults + 1 /\ failed

\* app.post("/upload") to its first await: the snapshot of the metadata, the
\* token, the dates and the name; then the PDF is sent to the bucket.
S3UploadStart(file) ==
  /\ backend = "s3"
  /\ CanStart
  /\ upload(file)
  /\ nextToken <= MaxTokens
  /\ procs' = Append(procs,
       [kind |-> "upload", pc |-> "putpdf", meta |-> readMetadata,
        token |-> nextToken, file |-> file, buffer |-> bufferOf(nextToken),
        createdAt |-> now, filename |-> uniqueName(now, file.originalname)])
  /\ nextToken' = nextToken + 1
  /\ resp' = NoResp
  /\ UNCHANGED << process, backend, ttl, load, now, metaFile, pdfStore, qrStore, mirror,
                  faults, uploaded, deletedOk >>

\* An upload that has written its entry before the PDF is known to be stored:
\* the entry is there although the put of the PDF failed.
S3UploadPdfStoredEager(p) ==
  /\ backend = "s3"
  /\ At(p, "upload", "putpdf")
  /\ LET h == procs[p]
         e == s3Entry(h.token, h.file, h.filename, h.createdAt, Null)
         meta2 == addEntry(h.meta, e)
     IN
       /\ metaFile' = writeMetadata(meta2)
       /\ \/ /\ pdfStore' = Put(pdfStore, h.filename, h.buffer)
             /\ procs' = [procs EXCEPT ![p].pc = "putjson", ![p].meta = meta2]
             /\ resp' = NoResp
             /\ UNCHANGED faults
          \/ /\ S3Throws(p)
             /\ UNCHANGED pdfStore
  /\ UNCHANGED << process, backend, ttl, load, now, qrStore, mirror, nextToken, uploaded, deletedOk >>

\* The PDF is stored; the entry goes into the handler's snapshot, which is
\* written over metadata.json; then the mirror record is sent.
S3UploadPdfStored(p) ==
  /\ backend = "s3"
  /\ At(p, "upload", "putpdf")
  /\ \/ LET h == procs[p]
            e == s3Entry(h.token, h.file, h.filename, h.createdAt, Null)
            meta2 == addEntry(h.meta, e)
        IN
          /\ pdfStore' = Put(pdfStore, h.filename, h.buffer)
          /\ metaFile' = writeMetadata(meta2)
          /\ procs' = [procs EXCEPT ![p].pc = "putjson", ![p].meta = meta2]
          /\ resp' = NoResp
          /\ UNCHANGED faults
     \/ /\ S3Throws(p)
        /\ UNCHANGED << pdfStore, metaFile >>
  /\ UNCHANGED << process, backend, ttl, load, now, qrStore, mirror, nextToken, uploaded, deletedOk >>

\* s3PutJson(tokens/<token>.json, entry) returns; QRCode.toBuffer and the put
\* of the image follow.
S3UploadJsonStored(p) ==
  /\ backend = "s3"
  /\ At(p, "upload", "putjson")
  /\ \/ LET h == procs[p] IN
          /\ mirror' = Put(mirror, h.token,
               s3Entry(h.token, h.file, h.filename, h.createdAt, Null))
          /\ procs' = [procs EXCEPT ![p].pc = "putqr"]
          /\ resp' = NoResp
          /\ UNCHANGED faults
     \/ /\ S3Throws(p)
        /\ UNCHANGED mirror
  /\ UNCHANGED << process, backend, ttl, load, now, metaFile, pdfStore, qrStore, nextToken,
                  uploaded, deletedOk >>

\* The QR image is rendered and stored; the QR key goes into the handler's
\* snapshot, which is written over metadata.json again.
S3UploadQrStored(p) ==
  /\ backend = "s3"
  /\ At(p, "upload", "putqr")
  /\ \/ LET h == procs[p]
            meta2 == setQrKey(h.meta, h.token, h.filename)
        IN
          /\ qrStore' = qrStore \cup {h.filename}
          /\ metaFile' = writeMetadata(meta2)
          /\ procs' = [procs EXCEPT ![p].pc = "putjson2", ![p].meta = meta2]
          /\ resp' = NoResp
          /\ UNCHANGED faults
     \/ /\ S3Throws(p)
        /\ UNCHANGED << qrStore, metaFile >>
  /\ UNCHANGED << process, backend, ttl, load, now, pdfStore, mirror, nextToken, uploaded, deletedOk >>

\* The mirror record with the QR key is stored and the page is sent.
S3UploadDone(p) ==
  /\ backend = "s3"
  /\ At(p, "upload", "putjson2")
  /\ \/ LET h == procs[p] IN
          /\ mirror' = Put(mirror, h.token,
               s3Entry(h.token, h.file, h.filename, h.createdAt, Some(h.filename)))
          /\ procs' = RemoveAt(procs, p)
          /\ resp' = [op |-> "upload", status |-> 200, token |-> h.token]
          /\ uploaded' = Put(uploaded, h.token, h.buffer)
          /\ UNCHANGED faults
     \/ /\ S3Throws(p)
        /\ UNCHANGED << mirror, uploaded >>
  /\ UNCHANGED << process, backend, ttl, load, now, metaFile, pdfStore, qrStore, nextToken,
                  deletedOk >>

\* What s3GetJson(tokens/<token>.json) returns: the record, or null when it is
\* absent or the call fails.
s3GetJson(token, ok) == IF ok /\ token \in DOMAIN mirror THEN Some(mirror[token]) ELSE Null

\* The entry app.get("/view/:token") of part_000 finds: the mirror's first,
\* then the local index's.
viewEntryS3(meta, token, ok) ==
  IF s3GetJson(token, ok) # Null THEN s3GetJson(token, ok)
  ELSE IF token \in DOMAIN meta.byToken THEN Some(meta.byToken[token])
  ELSE Null

\* What app.get("/view/:token") of part_000 answers; the body of a redirect is
\* what the signed URL of entry.s3Key then yields.
viewS3(meta, token, t, ok) ==
  LET found == viewEntryS3(meta, token, ok) IN
  IF found = Null
    THEN [status |-> 404, body |-> "invalid"]
  ELSE IF isExpired(found[1], t)
    THEN [status |-> 410, body |-> "expired"]
  ELSE [status |-> 302,
        body |-> IF found[1].s3Key \in DOMAIN pdfStore
                   THEN pdfStore[found[1].s3Key] ELSE "NoSuchKey"]

\* app.get("/view/:token") of part_000: it answers and writes nothing. The read
\* of the mirror and the read of metadata.json are taken as one step.
S3View(token) ==
  /\ backend = "s3"
  /\ \E ok \in BOOLEAN :
       /\ IF ok THEN UNCHANGED faults
                ELSE faults < MaxFaults /\ faults' = faults + 1
       /\ LET v == viewS3(readMetadata, token, now, ok) IN
            resp' = [op |-> "view", token |-> token, status |-> v.status, body |-> v.body]
  /\ UNCHANGED << process, backend, ttl, load, now, metaFile, pdfStore, qrStore, mirror, procs,
                  nextToken, uploaded, deletedOk >>

\* What app.get("/qr/:token") answers: the entry is looked up in metadata.json
\* only; the body of the redirect is what the signed URL of entry.qrS3Key yields.
qrS3(meta, token) ==
  IF token \notin DOMAIN meta.byToken \/ meta.byToken[token].qrS3Key = Null
    THEN [status |-> 404, body |-> "QR no encontrado"]
    ELSE [status |-> 302,
          body |-> IF meta.byToken[token].qrS3Key[1] \in qrStore
                     THEN "png" ELSE "NoSuchKey"]

\* app.get("/qr/:token"): it answers and writes nothing.
S3Qr(token) ==
  /\ backend = "s3"
  /\ LET v == qrS3(readMetadata, token) IN
       resp' = [op |-> "qr", token |-> token, status |-> v.status, body |-> v.body]
  /\ UNCHANGED << process, backend, ttl, load, now, metaFile, pdfStore, qrStore, mirror, procs,
                  nextToken, faults, uploaded, deletedOk >>

\* s3ListTokenEntries(limit): the records of the mirror in the order of their
\* keys, which ListObjectsV2 returns sorted, up to `limit` of them.
s3ListTokenEntries(limit) ==
  {mirror[k] : k \in {k \in DOMAIN mirror :
                        Cardinality({j \in DOMAIN mirror : j < k}) < limit}}

\* listTokens of part_000: the listed records of the mirror, then the local
\* entries whose token is not among them.
listTokensS3(meta, s3Entries) == {e.token : e \in s3Entries} \cup DOMAIN meta.byToken

\* The Map byToken that listTokens and app.get("/manage") of part_000 build:
\* byToken.set(e.token, e) for the listed records, then the local entry for
\* every token the Map lacks.
combinedS3(meta, s3Entries) ==
  [token \in listTokensS3(meta, s3Entries) |->
     IF \E e \in s3Entries : e.token = token
       THEN CHOOSE e \in s3Entries : e.token = token
       ELSE meta.byToken[token]]

\* The rows of listTokens and of app.get("/manage") of part_000: the listed
\* records in the order of their keys, then the local entries the Map lacked,
\* sorted by createdAt.
listRowsS3(meta, s3Entries) ==
  LET listed == {e.token : e \in s3Entries} IN
  sortByCreatedAt(
    entriesOf([k \in listed |-> combinedS3(meta, s3Entries)[k]])
      \o entriesOf([k \in DOMAIN meta.byToken \ listed |-> meta.byToken[k]]))

\* app.get("/tokens") of part_000, taken as one step.
S3List ==
  /\ backend = "s3"
  /\ LET s3Entries == s3ListTokenEntries(ListLimit) IN
       resp' = [op |-> "list", tokens |-> listTokensS3(readMetadata, s3Entries),
                rows |-> listRowsS3(readMetadata, s3Entries),
                combined |-> combinedS3(readMetadata, s3Entries)]
  /\ UNCHANGED << process, backend, ttl, load, now, metaFile, pdfStore, qrStore, mirror, procs,
                  nextToken, faults, uploaded, deletedOk >>

\* app.get("/manage") of part_000, taken as one step.
S3Manage ==
  /\ backend = "s3"
  /\ LET s3Entries == s3ListTokenEntries(ListLimit) IN
       resp' = [op |-> "manage", rows |-> listRowsS3(readMetadata, s3Entries),
                combined |-> combinedS3(readMetadata, s3Entries)]
  /\ UNCHANGED << process, backend, ttl, load, now, metaFile, pdfStore, qrStore, mirror, procs,
                  nextToken, faults, uploaded, deletedOk >>

\* removeByToken of part_000 to its first await: the snapshot, and the entry
\* from the local index or, failing that, a read of the mirror.
S3DeleteStart(token) ==
  /\ backend = "s3"
  /\ CanStart
  /\ LET meta == readMetadata IN
       procs' = Append(procs,
         IF token \in DOMAIN meta.byToken
           THEN [kind |-> "delete", pc |-> "delpdf", meta |-> meta, token |-> token,
                 entry |-> meta.byToken[token]]
           ELSE [kind |-> "delete", pc |-> "getjson", meta |-> meta, token |-> token])
  /\ resp' = NoResp
  /\ UNCHANGED << process, backend, ttl, load, now, metaFile, pdfStore, qrStore, mirror,
                  nextToken, faults, uploaded, deletedOk >>

\* The mirror read returns: no entry ends the delete with not_found.
S3DeleteGot(p) ==
  /\ backend = "s3"
  /\ At(p, "delete", "getjson")
  /\ \E ok \in BOOLEAN :
       /\ IF ok THEN UNCHANGED faults
                ELSE faults < MaxFaults /\ faults' = faults + 1
       /\ LET found == s3GetJson(procs[p].token, ok) IN
            IF found = Null
              THEN /\ procs' = RemoveAt(procs, p)
                   /\ resp' = [op |-> "delete", token |-> procs[p].token, status |-> 404]
              ELSE /\ procs' = [procs EXCEPT ![p] =
                        [kind |-> "delete", pc |-> "delpdf", meta |-> procs[p].meta,
                         token |-> procs[p].token, entry |-> found[1]]]
                   /\ resp' = NoResp
  /\ UNCHANGED << process, backend, ttl, load, now, metaFile, pdfStore, qrStore, mirror,
                  nextToken, uploaded, deletedOk >>

\* delete meta.byToken[token]; delete meta.byFile[entry.filename]; writeMetadata(meta):
\* the snapshot taken when the delete began, less the entry.
deleteCommit(h) == writeMetadata(removeEntry(h.meta, h.token, h.entry.filename))

\* The delete of the PDF object returns (done or failed, the error swallowed);
\* an entry without a QR key goes straight on to the metadata.
S3DeletePdfDone(p) ==
  /\ backend = "s3"
  /\ At(p, "delete", "delpdf")
  /\ LET h == procs[p] IN
       /\ BestEffort(pdfStore' = Drop(pdfStore, h.entry.s3Key), UNCHANGED pdfStore)
       /\ IF h.entry.qrS3Key # Null
            THEN /\ procs' = [procs EXCEPT ![p].pc = "delqr"]
                 /\ UNCHANGED metaFile
            ELSE /\ procs' = [procs EXCEPT ![p].pc = "deljson"]
                 /\ metaFile' = deleteCommit(h)
  /\ resp' = NoResp
  /\ UNCHANGED << process, backend, ttl, load, now, qrStore, mirror, nextToken, uploaded, deletedOk >>

\* The delete of the QR object returns; the metadata is written.
S3DeleteQrDone(p) ==
  /\ backend = "s3"
  /\ At(p, "delete", "delqr")
  /\ LET h == procs[p] IN
       /\ BestEffort(qrStore' = qrStore \ {h.entry.qrS3Key[1]}, UNCHANGED qrStore)
       /\ procs' = [procs EXCEPT ![p].pc = "deljson"]
       /\ metaFile' = deleteCommit(h)
  /\ resp' = NoResp
  /\ UNCHANGED << process, backend, ttl, load, now, pdfStore, mirror, nextToken, uploaded, deletedOk >>

\* The delete of tokens/<token>.json returns; removeByToken answers ok.
S3DeleteDone(p) ==
  /\ backend = "s3"
  /\ At(p, "delete", "deljson")
  /\ LET h == procs[p] IN
       /\ BestEffort(mirror' = Drop(mirror, h.token), UNCHANGED mirror)
       /\ procs' = RemoveAt(procs, p)
       /\ deletedOk' = deletedOk \cup {h.token}
       /\ resp' = [op |-> "delete", token |-> h.token, status |-> 302]
  /\ UNCHANGED << process, backend, ttl, load, now, metaFile, pdfStore, qrStore, nextToken, uploaded >>

\* purgeExpired of part_000 to its first await. The loop runs over the entries
\* of the snapshot, here in token order; with nothing expired it has no await
\* and writes the snapshot back at once.
S3PurgeStart ==
  /\ backend = "s3"
  /\ LET meta == readMetadata
         gone == expiredTokens(meta, now)
     IN
       IF gone = {}
         THEN /\ metaFile' = writeMetadata(meta)
              /\ resp' = [op |-> "purge", removed |-> 0, at |-> now]
              /\ UNCHANGED procs
         ELSE /\ CanStart
              /\ procs' = Append(procs,
                   [kind |-> "purge", pc |-> "delpdf", meta |-> meta, now |-> now,
                    scanned |-> DOMAIN meta.byToken,
                    todo |-> gone, token |-> Min(gone),
                    entry |-> meta.byToken[Min(gone)], removed |-> 0])
              /\ resp' = NoResp
              /\ UNCHANGED metaFile
  /\ UNCHANGED << process, backend, ttl, load, now, pdfStore, qrStore, mirror, nextToken,
                  faults, uploaded, deletedOk >>

\* delete meta.byFile[info.filename]; delete meta.byToken[token], in the snapshot.
purgeDrop(h) == removeEntry(h.meta, h.token, h.entry.filename)

\* The delete of an expired entry's PDF object returns.
S3PurgePdfDone(p) ==
  /\ backend = "s3"
  /\ At(p, "purge", "delpdf")
  /\ LET h == procs[p] IN
       /\ BestEffort(pdfStore' = Drop(pdfStore, h.entry.s3Key), UNCHANGED pdfStore)
       /\ procs' = IF h.entry.qrS3Key # Null
                     THEN [procs EXCEPT ![p].pc = "delqr"]
                     ELSE [procs EXCEPT ![p].pc = "deljson", ![p].meta = purgeDrop(h)]
  /\ resp' = NoResp
  /\ UNCHANGED << process, backend, ttl, load, now, metaFile, qrStore, mirror, nextToken,
                  uploaded, deletedOk >>

\* The delete of its QR object returns; the entry leaves the snapshot.
S3PurgeQrDone(p) ==
  /\ backend = "s3"
  /\ At(p, "purge", "delqr")
  /\ LET h == procs[p] IN
       /\ BestEffort(qrStore' = qrStore \ {h.entry.qrS3Key[1]}, UNCHANGED qrStore)
       /\ procs' = [procs EXCEPT ![p].pc = "deljson", ![p].meta = purgeDrop(h)]
  /\ resp' = NoResp
  /\ UNCHANGED << process, backend, ttl, load, now, metaFile, pdfStore, mirror, nextToken,
                  uploaded, deletedOk >>

\* A purge that writes the snapshot after every removal instead of once at
\* the end of the scan.
S3PurgeJsonDoneEachWrite(p) ==
  /\ backend = "s3"
  /\ At(p, "purge", "deljson")
  /\ LET h == procs[p]
         rest == h.todo \ {h.token}
     IN
       /\ BestEffort(mirror' = Drop(mirror, h.token), UNCHANGED mirror)
       /\ metaFile' = writeMetadata(h.meta)
       /\ IF rest = {}
            THEN /\ procs' = RemoveAt(procs, p)
                 /\ resp' = [op |-> "purge", removed |-> h.removed + 1, at |-> h.now]
            ELSE /\ procs' = [procs EXCEPT ![p] =
                      [kind |-> "purge", pc |-> "delpdf", meta |-> h.meta, now |-> h.now,
                       scanned |-> h.scanned,
                       todo |-> rest, token |-> Min(rest),
                       entry |-> h.meta.byToken[Min(rest)], removed |-> h.removed + 1]]
                 /\ resp' = NoResp
  /\ UNCHANGED << process, backend, ttl, load, now, pdfStore, qrStore, nextToken, uploaded, deletedOk >>

\* The delete of its mirror record returns: removed++, and either the next
\* expired entry or, after the last, the one write of the snapshot.
S3PurgeJsonDone(p) ==
  /\ backend = "s3"
  /\ At(p, "purge", "deljson")
  /\ LET h == procs[p]
         rest == h.todo \ {h.token}
     IN
       /\ BestEffort(mirror' = Drop(mirror, h.token), UNCHANGED mirror)
       /\ IF rest = {}
            THEN /\ metaFile' = writeMetadata(h.meta)
                 /\ procs' = RemoveAt(procs, p)
                 /\ resp' = [op |-> "purge", removed |-> h.removed + 1, at |-> h.now]
            ELSE /\ procs' = [procs EXCEPT ![p] =
                      [kind |-> "purge", pc |-> "delpdf", meta |-> h.meta, now |-> h.now,
                       scanned |-> h.scanned,
                       todo |-> rest, token |-> Min(rest),
                       entry |-> h.meta.byToken[Min(rest)], removed |-> h.removed + 1]]
                 /\ resp' = NoResp
                 /\ UNCHANGED metaFile
  /\ UNCHANGED << process, backend, ttl, load, now, pdfStore, qrStore, nextToken, uploaded, deletedOk >>

S3Next ==
  \/ \E file \in Files : S3UploadStart(file)
  \/ \E p \in ProcIds : S3UploadPdfStored(p)
  \/ \E p \in ProcIds : S3UploadJsonStored(p)
  \/ \E p \in ProcIds : S3UploadQrStored(p)
  \/ \E p \in ProcIds : S3UploadDone(p)
  \/ \E token \in Tokens : S3View(token)
  \/ \E token \in Tokens : S3Qr(token)
  \/ S3List
  \/ S3Manage
  \/ \E token \in Tokens : S3DeleteStart(token)
  \/ \E p \in ProcIds : S3DeleteGot(p)
  \/ \E p \in ProcIds : S3DeletePdfDone(p)
  \/ \E p \in ProcIds : S3DeleteQrDone(p)
  \/ \E p \in ProcIds : S3DeleteDone(p)
  \/ S3PurgeStart
  \/ \E p \in ProcIds : S3PurgePdfDone(p)
  \/ \E p \in ProcIds : S3PurgeQrDone(p)
  \/ \E p \in ProcIds : S3PurgeJsonDone(p)

\* ---------------------------------------------------- /admin/reindex
\* obj.Key.endsWith('.pdf'), which compares case: the names of Files it holds for.
EndsWithLowerPdf(name) == name \in {"a.pdf", "big.pdf"}

\* byFilename.set(e.filename, e) over the listed records in their order: the
\* last record of a filename stays.
reindexByFilename(entries) ==
  [f \in {e.filename : e \in entries} |->
     CHOOSE e \in entries :
       e.filename = f /\ \A d \in entries : d.filename = f => d.token <= e.token]

\* The order in which ListObjectsV2 returns the keys "<ms>-<name>".
keyBefore(k, j) == k[1] < j[1] \/ (k[1] = j[1] /\ (k[2] = j[2] \/ k[2] = "a.pdf"))
firstKey(S) == CHOOSE k \in S : \A j \in S : keyBefore(k, j)

\* The entry app.get("/admin/reindex") builds for a PDF without a mirror
\* record: the local entry's fields where byFile has one, else a new token and
\* defaults (the filename as the name, no size); qrS3Key is set at once.
reindexEntry(fname, local, token, t) ==
  [token |-> token, filename |-> fname,
   originalName |-> IF local # Null THEN local[1].originalName ELSE "filename",
   size |-> IF local # Null THEN local[1].size ELSE 0 - 1,
   mime |-> IF local # Null THEN local[1].mime ELSE "application/pdf",
   createdAt |-> IF local # Null THEN local[1].createdAt ELSE t,
   expiresAt |-> IF local # Null /\ local[1].expiresAt # Null
                   THEN local[1].expiresAt ELSE expiresAtS3(t),
   s3Key |-> fname, qrS3Key |-> Some(fname)]

\* entry.qrS3Key && !allKeys.has(entry.qrS3Key)
needsQr(h, entry) == entry.qrS3Key # Null /\ entry.qrS3Key[1] \notin h.allKeys

\* The keys of the loop that are left once those with a record and a QR image,
\* for which an iteration awaits nothing, have been passed.
RECURSIVE reindexSkip(_, _)
reindexSkip(h, todo) ==
  IF todo = {} THEN {}
  ELSE LET k == firstKey(todo) IN
         IF k \notin DOMAIN h.byFilename \/ needsQr(h, h.byFilename[k])
           THEN todo
           ELSE reindexSkip(h, todo \ {k})

\* The loop of reindex handler p, in state h, runs to its next await: the put
\* of a new record, the making of a missing QR image, or, the keys exhausted,
\* the write of the snapshot and the page.
ReindexContinue(p, h) ==
  LET todo == reindexSkip(h, h.todo) IN
    IF todo = {}
      THEN /\ metaFile' = writeMetadata(h.meta)
           /\ procs' = RemoveAt(procs, p)
           /\ resp' = [op |-> "reindex", status |-> 200, created |-> h.created]
           /\ UNCHANGED nextToken
      ELSE LET k == firstKey(todo) IN
        IF k \in DOMAIN h.byFilename
          THEN /\ procs' = [procs EXCEPT ![p] =
                    [h EXCEPT !.pc = "putqr", !.todo = todo, !.entry = h.byFilename[k]]]
               /\ resp' = NoResp
               /\ UNCHANGED << metaFile, nextToken >>
          ELSE LET local == IF k \in DOMAIN h.meta.byFile
                              THEN Some(h.meta.byFile[k]) ELSE Null
                   token == IF local # Null THEN local[1].token ELSE nextToken
               IN
                 /\ local = Null => nextToken <= MaxTokens + MaxMinted
                 /\ nextToken' = IF local = Null THEN nextToken + 1 ELSE nextToken
                 /\ procs' = [procs EXCEPT ![p] =
                      [h EXCEPT !.pc = "putjson", !.todo = todo,
                                !.entry = reindexEntry(k, local, token, now)]]
                 /\ resp' = NoResp
                 /\ UNCHANGED metaFile

\* An awaited call of reindex handler p throws: the handler ends there, the
\* snapshot is not written.
S3ReindexThrows(p) ==
  /\ faults < MaxFaults
  /\ faults' = faults + 1
  /\ procs' = RemoveAt(procs, p)
  /\ resp' = [op |-> "reindex", status |-> 500, stage |-> procs[p].pc]
  /\ UNCHANGED << metaFile, nextToken >>

\* app.get("/admin/reindex") to its first awaits: the listing of the mirror is
\* asked for.
S3ReindexStart ==
  /\ backend = "s3"
  /\ CanStart
  /\ procs' = Append(procs,
       [kind |-> "reindex", pc |-> "list", byFilename |-> EmptyFn, allKeys |-> {},
        meta |-> EmptyMeta, todo |-> {}, entry |-> Null, created |-> 0])
  /\ resp' = NoResp
  /\ UNCHANGED << process, backend, ttl, load, now, metaFile, pdfStore, qrStore, mirror,
                  nextToken, faults, uploaded, deletedOk >>

\* s3ListTokenEntries(1000) returns; the listing of the objects is asked for.
S3ReindexListed(p) ==
  /\ backend = "s3"
  /\ At(p, "reindex", "list")
  /\ procs' = [procs EXCEPT ![p].pc = "keys",
                            ![p].byFilename =
                               reindexByFilename(s3ListTokenEntries(ReindexLimit))]
  /\ resp' = NoResp
  /\ UNCHANGED << process, backend, ttl, load, now, metaFile, pdfStore, qrStore, mirror,
                  nextToken, faults, uploaded, deletedOk >>

\* The listing of the objects returns: allKeys and pdfKeys; the metadata is
\* read and the loop begins.
S3ReindexKeys(p) ==
  /\ backend = "s3"
  /\ At(p, "reindex", "keys")
  /\ ReindexContinue(p,
       [procs[p] EXCEPT !.allKeys = qrStore, !.meta = readMetadata,
          !.todo = {f \in DOMAIN pdfStore : EndsWithLowerPdf(f[2])}])
  /\ UNCHANGED << process, backend, ttl, load, now, pdfStore, qrStore, mirror,
                  faults, uploaded, deletedOk >>

\* s3PutJson(tokens/<token>.json, entry) returns: the entry goes into both
\* indices of the snapshot; its QR image is made if the listing lacked it.
S3ReindexJsonStored(p) ==
  /\ backend = "s3"
  /\ At(p, "reindex", "putjson")
  /\ \/ LET h == procs[p]
            e == h.entry
            h2 == [h EXCEPT !.meta = addEntry(h.meta, e), !.created = h.created + 1]
        IN
          /\ mirror' = Put(mirror, e.token, e)
          /\ IF needsQr(h, e)
               THEN /\ procs' = [procs EXCEPT ![p] = [h2 EXCEPT !.pc = "putqr"]]
                    /\ resp' = NoResp
                    /\ UNCHANGED << metaFile, nextToken >>
               ELSE ReindexContinue(p, [h2 EXCEPT !.todo = h.todo \ {e.filename}])
          /\ UNCHANGED faults
     \/ /\ S3ReindexThrows(p)
        /\ UNCHANGED mirror
  /\ UNCHANGED << process, backend, ttl, load, now, pdfStore, qrStore, uploaded, deletedOk >>

\* QRCode.toBuffer and the put of the image return; the loop goes on.
S3ReindexQrStored(p) ==
  /\ backend = "s3"
  /\ At(p, "reindex", "putqr")
  /\ \/ LET h == procs[p] IN
          /\ qrStore' = qrStore \cup {h.entry.qrS3Key[1]}
          /\ ReindexContinue(p, [h EXCEPT !.todo = h.todo \ {h.entry.filename}])
          /\ UNCHANGED faults
     \/ /\ S3ReindexThrows(p)
        /\ UNCHANGED qrStore
  /\ UNCHANGED << process, backend, ttl, load, now, pdfStore, mirror, uploaded, deletedOk >>

\* ------------------------------------------- server.js, the second program
\* The file holds a second, older server after the first (lines 420-524): its
\* multer takes every file, it keeps no metadata, and /upload only renders a QR.
\* multer({ storage }): no fileFilter and no limits, the file is written.
LegacyMulter(file) ==
  /\ backend = "legacy"
  /\ CanStart
  /\ nextToken <= MaxTokens
  /\ LET fname == uniqueName(now, file.originalname) IN
       /\ pdfStore' = Put(pdfStore, fname, bufferOf(nextToken))
       /\ procs' = Append(procs,
            [kind |-> "upload", pc |-> "qr", file |-> file, filename |-> fname])
  /\ nextToken' = nextToken + 1
  /\ resp' = NoResp
  /\ UNCHANGED << process, backend, ttl, load, now, metaFile, qrStore, mirror,
                  faults, uploaded, deletedOk >>

\* app.post("/upload") of the second program: await QRCode.toFile, then the page.
LegacyUpload(p) ==
  /\ backend = "legacy"
  /\ At(p, "upload", "qr")
  /\ qrStore' = qrStore \cup {procs[p].filename}
  /\ resp' = [op |-> "upload", status |-> 200, file |-> procs[p].file]
  /\ procs' = RemoveAt(procs, p)
  /\ UNCHANGED << process, backend, ttl, load, now, metaFile, pdfStore, mirror,
                  nextToken, faults, uploaded, deletedOk >>

\* ------------------------------------------- paths of server.js
\* A string is the sequence of its characters, a path the sequence of its
\* segments. The names a stored filename is made of: "..", a file "f", the
\* upload directory's own name "u", and "ux", which begins with it.
DotDot == << ".", "." >>
Segments == {DotDot, << "f" >>, << "u" >>, << "u", "x" >>}

\* The stored filenames: up to MaxSegments segments.
Filenames == UNION {[1..n -> Segments] : n \in 1..MaxSegments}

\* path.normalize: ".." leaves the directory it stands in; at the root it stays.
RECURSIVE normalize(_)
normalize(segs) ==
  IF segs = << >> THEN << >>
  ELSE LET front == normalize(SubSeq(segs, 1, Len(segs) - 1))
           s == segs[Len(segs)]
       IN IF s # DotDot THEN Append(front, s)
          ELSE IF front = << >> THEN << >>
          ELSE SubSeq(front, 1, Len(front) - 1)

\* path.join(base, file) of an absolute base.
pathJoin(base, file) == normalize(base \o file)

\* The path as the string the code holds: "/" before each segment.
RECURSIVE pathString(_)
pathString(segs) ==
  IF segs = << >> THEN << >>
  ELSE pathString(SubSeq(segs, 1, Len(segs) - 1)) \o << "/" >> \o segs[Len(segs)]

\* String.prototype.startsWith.
startsWith(str, prefix) ==
  Len(str) >= Len(prefix) /\ SubSeq(str, 1, Len(prefix)) = prefix

\* const uploadDir = path.join(__dirname, "uploads").
uploadDir == pathJoin(<< << "a" >> >>, << << "u" >> >>)

\* safeJoin: the joined path, or Null where it throws "Ruta no permitida".
safeJoin(base, file) ==
  IF ~startsWith(pathString(pathJoin(base, file)), pathString(base))
    THEN Null
    ELSE Some(pathJoin(base, file))

\* `${entry.filename}-qr.png`: the suffix goes onto the last segment.
qrName(file) == [file EXCEPT ![Len(file)] = @ \o << "-", "q", "r" >>]

\* The paths removeByToken of server.js hands to existsSync and unlinkSync for
\* an entry: both come from safeJoin, inside one try block, before any access.
removePaths(filename) ==
  IF safeJoin(uploadDir, filename) = Null \/ safeJoin(uploadDir, qrName(filename)) = Null
    THEN {}
    ELSE {safeJoin(uploadDir, filename)[1], safeJoin(uploadDir, qrName(filename))[1]}

\* The paths purgeExpired of server.js hands to unlinkSync for an expired entry.
purgePaths(filename) == {pathJoin(uploadDir, filename), pathJoin(uploadDir, qrName(filename))}

\* The path app.get("/view/:token") of server.js hands to existsSync and sendFile.
viewPaths(filename) == {pathJoin(uploadDir, filename)}

\* The filesystem accesses each operation makes for an entry of that filename.
RemoveAccess(filename) ==
  /\ resp' = [op |-> "access", by |-> "delete", filename |-> filename,
              paths |-> removePaths(filename)]
  /\ UNCHANGED << process, backend, ttl, load, now, metaFile, pdfStore, qrStore, mirror, procs,
                  nextToken, faults, uploaded, deletedOk >>

PurgeAccess(filename) ==
  /\ resp' = [op |-> "access", by |-> "purge", filename |-> filename,
              paths |-> purgePaths(filename)]
  /\ UNCHANGED << process, backend, ttl, load, now, metaFile, pdfStore, qrStore, mirror, procs,
                  nextToken, faults, uploaded, deletedOk >>

ViewAccess(filename) ==
  /\ resp' = [op |-> "access", by |-> "view", filename |-> filename,
              paths |-> viewPaths(filename)]
  /\ UNCHANGED << process, backend, ttl, load, now, metaFile, pdfStore, qrStore, mirror, procs,
                  nextToken, faults, uploaded, deletedOk >>

\* ------------------------------------------- requireAdmin (both builds)
\* Strings are sequences of characters: a letter and the colon.
Chars == {"a", ":"}
StringsTo(n) == UNION {[1..k -> Chars] : k \in 0..n}
HasColon(str) == \E i \in 1..Len(str) : str[i] = ":"

\* process.env.ADMIN_USER and process.env.ADMIN_PASS; "" when not set.
AdminUsers == {u \in StringsTo(MaxChars) : ~HasColon(u)}
AdminPasses == StringsTo(MaxChars)

\* req.headers.authorization: none, another scheme, or "Basic " with the
\* base64 of a text; the record holds the text that base64 decodes to.
NoHeader == [scheme |-> "none"]
Headers ==
  {NoHeader, [scheme |-> "Bearer"]}
    \cup {[scheme |-> "Basic", text |-> t] : t \in StringsTo(MaxHeaderChars) \ {<< >>}}

\* String.prototype.split(":"): the pieces between the colons.
RECURSIVE split(_)
split(str) ==
  IF ~HasColon(str) THEN << str >>
  ELSE LET i == Min({k \in 1..Len(str) : str[k] = ":"})
       IN << SubSeq(str, 1, i - 1) >> \o split(SubSeq(str, i + 1, Len(str)))

\* requireAdmin: TRUE where it calls next(), FALSE where it answers 401.
\* const [u, p] = ....split(":") takes the first two pieces; p is undefined
\* when there is one piece only.
requireAdmin(adminUser, adminPass, hdr) ==
  IF adminUser = << >> \/ adminPass = << >> THEN TRUE
  ELSE IF hdr.scheme # "Basic" THEN FALSE
  ELSE LET parts == split(hdr.text)
       IN /\ parts[1] = adminUser
          /\ Len(parts) >= 2
          /\ parts[2] = adminPass

\* An administrative request (/delete, /tokens, /admin/purge, /admin/reindex,
\* /manage) arrives at the gate of a process started with that configuration.
AdminRequest(adminUser, adminPass, hdr) ==
  /\ resp' = [op |-> "admin", adminUser |-> adminUser, adminPass |-> adminPass,
              hdr |-> hdr,
              status |-> IF requireAdmin(adminUser, adminPass, hdr) THEN 200 ELSE 401]
  /\ UNCHANGED << process, backend, ttl, load, now, metaFile, pdfStore, qrStore, mirror, procs,
                  nextToken, faults, uploaded, deletedOk >>

\* ------------------------------------------- fs.writeFileSync(metadataPath, ...)
\* The documents a handler may hand to writeMetadata: the empty one and those
\* of one upload.
Documents ==
  {EmptyMeta} \cup
    {[byFile |-> Put(EmptyFn, uniqueName(t, file.originalname),
                     localByFileEntry(token, file, t)),
      byToken |-> Put(EmptyFn, token,
                      localByTokenEntry(uniqueName(t, file.originalname), file, t))] :
       token \in Tokens, t \in Times, file \in Files}

\* writeFileSync opens metadata.json for writing, which empties it in place.
WriteOpen(data) ==
  /\ procs = << >>
  /\ procs' = << [kind |-> "write", pc |-> "opened", old |-> metaFile, data |-> data] >>
  /\ metaFile' = EmptyFn
  /\ resp' = NoResp
  /\ UNCHANGED << process, backend, ttl, load, now, pdfStore, qrStore, mirror, nextToken,
                  faults, uploaded, deletedOk >>

\* A first part of the text is in the file: text that does not parse.
WritePart(p) ==
  /\ At(p, "write", "opened")
  /\ procs' = [procs EXCEPT ![p].pc = "partial"]
  /\ metaFile' = [unreadable |-> "SyntaxError"]
  /\ resp' = NoResp
  /\ UNCHANGED << process, backend, ttl, load, now, pdfStore, qrStore, mirror, nextToken,
                  faults, uploaded, deletedOk >>

\* The rest of the text is written and writeFileSync returns.
WriteRest(p) ==
  /\ procs[p].kind = "write"
  /\ procs' = RemoveAt(procs, p)
  /\ metaFile' = writeMetadata(procs[p].data)
  /\ resp' = [op |-> "write", file |-> writeMetadata(procs[p].data)]
  /\ UNCHANGED << process, backend, ttl, load, now, pdfStore, qrStore, mirror, nextToken,
                  faults, uploaded, deletedOk >>

\* The process is stopped inside writeFileSync and started again: the new
\* process finds metadata.json as the write left it.
WriteInterrupted(p) ==
  /\ procs[p].kind = "write"
  /\ procs' = << >>
  /\ resp' = [op |-> "restart", file |-> metaFile, old |-> procs[p].old,
              new |-> writeMetadata(procs[p].data)]
  /\ UNCHANGED << process, backend, ttl, load, now, metaFile, pdfStore, qrStore, mirror,
                  nextToken, faults, uploaded, deletedOk >>

\* ------------------------------------------- /files (both builds)
\* The files of uploadDir that express.static(uploadDir) can send. server.js
\* keeps the PDFs and the QR images there, next to metadata.json; part_000
\* keeps them in the bucket, so its uploadDir holds metadata.json alone.
\* metadata.json is sent as it lies on the disk, parseable or not.
storedPdf(fname) == backend = "local" /\ fname \in DOMAIN pdfStore
storedQr(fname) == backend = "local" /\ fname \in qrStore
storedMetadata == metaFile # [unreadable |-> "ENOENT"]

\* GET /files/<filename>: no token, no credentials, no look at expiresAt.
StaticPdf(fname) ==
  /\ resp' = IF storedPdf(fname)
               THEN [op |-> "files", path |-> "pdf", file |-> fname, status |-> 200,
                     body |-> pdfStore[fname]]
               ELSE [op |-> "files", path |-> "pdf", file |-> fname, status |-> 404]
  /\ UNCHANGED << process, backend, ttl, load, now, metaFile, pdfStore, qrStore, mirror, procs,
                  nextToken, faults, uploaded, deletedOk >>

\* GET /files/<filename>-qr.png
StaticQr(fname) ==
  /\ resp' = [op |-> "files", path |-> "qr", file |-> fname,
              status |-> IF storedQr(fname) THEN 200 ELSE 404]
  /\ UNCHANGED << process, backend, ttl, load, now, metaFile, pdfStore, qrStore, mirror, procs,
                  nextToken, faults, uploaded, deletedOk >>

\* GET /files/metadata.json
StaticMetadata ==
  /\ resp' = IF storedMetadata
               THEN [op |-> "files", path |-> "metadata.json", status |-> 200,
                     body |-> metaFile]
               ELSE [op |-> "files", path |-> "metadata.json", status |-> 404]
  /\ UNCHANGED << process, backend, ttl, load, now, metaFile, pdfStore, qrStore, mirror, procs,
                  nextToken, faults, uploaded, deletedOk >>

\* ------------------------------------------- shutdown (both builds)
\* What keeps Node's event loop alive: the listener and the open connections.
\* The purge interval and the timer of shutdown() are unref()'d and do not.
loopAlive == process.listening \/ process.conns > 0

\* A client connects and its request is in flight.
Connect ==
  /\ process.state # "exited"
  /\ process.listening
  /\ process.conns < MaxConns
  /\ process' = [process EXCEPT !.conns = @ + 1]
  /\ resp' = NoResp
  /\ UNCHANGED << backend, ttl, load, now, metaFile, pdfStore, qrStore, mirror, procs,
                  nextToken, faults, uploaded, deletedOk >>

\* A request is answered and its connection ends.
Disconnect ==
  /\ process.state # "exited"
  /\ process.conns > 0
  /\ process' = [process EXCEPT !.conns = @ - 1]
  /\ resp' = NoResp
  /\ UNCHANGED << backend, ttl, load, now, metaFile, pdfStore, qrStore, mirror, procs,
                  nextToken, faults, uploaded, deletedOk >>

\* SIGINT or SIGTERM: shutdown(signal) calls server.close, which ends the
\* listening, and arms the 5-second timer. A second signal changes nothing: its
\* close callback waits for the same 'close' event and its timer is due later.
Shutdown(signal) ==
  /\ process.state = "running"
  /\ process' = [process EXCEPT !.state = "closing", !.listening = FALSE, !.since = 0]
  /\ resp' = [op |-> "signal", signal |-> signal]
  /\ UNCHANGED << backend, ttl, load, now, metaFile, pdfStore, qrStore, mirror, procs,
                  nextToken, faults, uploaded, deletedOk >>

\* Time passes after the signal, up to the moment the timer is due.
GraceTick ==
  /\ process.state = "closing"
  /\ process.since < GraceTicks
  /\ process' = [process EXCEPT !.since = @ + 1]
  /\ resp' = NoResp
  /\ UNCHANGED << backend, ttl, load, now, metaFile, pdfStore, qrStore, mirror, procs,
                  nextToken, faults, uploaded, deletedOk >>

\* The callback of server.close: every connection has ended; process.exit(0).
ServerClosed ==
  /\ process.state = "closing"
  /\ process.conns = 0
  /\ process' = [process EXCEPT !.state = "exited"]
  /\ resp' = [op |-> "exit", by |-> "close", code |-> 0]
  /\ UNCHANGED << backend, ttl, load, now, metaFile, pdfStore, qrStore, mirror, procs,
                  nextToken, faults, uploaded, deletedOk >>

\* A forced exit that waits for the connections to end.
ForcedExitWhenIdle ==
  /\ process.state = "closing"
  /\ process.since = GraceTicks
  /\ process.conns = 0
  /\ process' = [process EXCEPT !.state = "exited"]
  /\ resp' = [op |-> "exit", by |-> "timer", code |-> 0]
  /\ UNCHANGED << backend, ttl, load, now, metaFile, pdfStore, qrStore, mirror, procs,
                  nextToken, faults, uploaded, deletedOk >>

\* setTimeout(() => process.exit(0), 5000).unref(): the timer is due while the
\* loop is still alive (connections are open), and it exits the process.
ForcedExit ==
  /\ process.state = "closing"
  /\ process.since = GraceTicks
  /\ loopAlive
  /\ process' = [process EXCEPT !.state = "exited"]
  /\ resp' = [op |-> "exit", by |-> "timer", code |-> 0]
  /\ UNCHANGED << backend, ttl, load, now, metaFile, pdfStore, qrStore, mirror, procs,
                  nextToken, faults, uploaded, deletedOk >>

\* -------------------------------------------------- specifications
Next ==
  \/ Tick
  \/ \E file \in Files : UploadRejected(file)
  \/ LocalNext
  \/ S3Next

Spec == Init /\ [][Next]_vars

\* Uploads only, their handlers overlapping.
NextCreate ==
  \/ Tick
  \/ \E file \in Files : UploadRejected(file)
  \/ \E file \in Files : LocalMulter(file)
  \/ \E p \in ProcIds : LocalUploadHandler(p)
  \/ \E p \in ProcIds : LocalUploadQr(p)
  \/ \E file \in Files : S3UploadStart(file)
  \/ \E p \in ProcIds : S3UploadPdfStored(p)
  \/ \E p \in ProcIds : S3UploadJsonStored(p)
  \/ \E p \in ProcIds : S3UploadQrStored(p)
  \/ \E p \in ProcIds : S3UploadDone(p)

SpecCreate == InitConc /\ [][NextCreate]_vars

\* Uploads and purges of the S3 build, overlapping, and QR retrievals among
\* them; no storage call fails.
InitPurge == Started /\ backend = "s3" /\ load = MaxProcs /\ faults = MaxFaults

NextPurge ==
  \/ Tick
  \/ \E file \in Files : S3UploadStart(file)
  \/ \E p \in ProcIds : S3UploadPdfStored(p)
  \/ \E p \in ProcIds : S3UploadJsonStored(p)
  \/ \E p \in ProcIds : S3UploadQrStored(p)
  \/ \E p \in ProcIds : S3UploadDone(p)
  \/ S3PurgeStart
  \/ \E p \in ProcIds : S3PurgePdfDone(p)
  \/ \E p \in ProcIds : S3PurgeQrDone(p)
  \/ \E p \in ProcIds : S3PurgeJsonDone(p)
  \/ \E token \in Tokens : S3Qr(token)

SpecPurge == InitPurge /\ [][NextPurge]_vars

\* Uploads and deletes of the S3 build, their handlers overlapping; no storage
\* call fails.
NextRace ==
  \/ Tick
  \/ \E file \in Files : S3UploadStart(file)
  \/ \E p \in ProcIds : S3UploadPdfStored(p)
  \/ \E p \in ProcIds : S3UploadJsonStored(p)
  \/ \E p \in ProcIds : S3UploadQrStored(p)
  \/ \E p \in ProcIds : S3UploadDone(p)
  \/ \E token \in Tokens : S3DeleteStart(token)
  \/ \E p \in ProcIds : S3DeleteGot(p)
  \/ \E p \in ProcIds : S3DeletePdfDone(p)
  \/ \E p \in ProcIds : S3DeleteQrDone(p)
  \/ \E p \in ProcIds : S3DeleteDone(p)

SpecRace == InitPurge /\ [][NextRace]_vars

\* Uploads and reindex runs of the S3 build, their handlers overlapping; a
\* storage call may fail.
InitReindex == Started /\ backend = "s3" /\ load = MaxProcs /\ faults = 0

NextReindex ==
  \/ Tick
  \/ \E file \in Files : S3UploadStart(file)
  \/ \E p \in ProcIds : S3UploadPdfStored(p)
  \/ \E p \in ProcIds : S3UploadJsonStored(p)
  \/ \E p \in ProcIds : S3UploadQrStored(p)
  \/ \E p \in ProcIds : S3UploadDone(p)
  \/ S3ReindexStart
  \/ \E p \in ProcIds : S3ReindexListed(p)
  \/ \E p \in ProcIds : S3ReindexKeys(p)
  \/ \E p \in ProcIds : S3ReindexJsonStored(p)
  \/ \E p \in ProcIds : S3ReindexQrStored(p)

SpecReindex == InitReindex /\ [][NextReindex]_vars

\* Uploads, the clock and every route that sends a file: /view and the /files
\* mount, one handler at a time; a storage call may fail.
StoredNames == {uniqueName(t, file.originalname) : t \in Times, file \in Files}

NextStatic ==
  \/ Tick
  \/ \E file \in Files : LocalMulter(file)
  \/ \E p \in ProcIds : LocalUploadHandler(p)
  \/ \E p \in ProcIds : LocalUploadQr(p)
  \/ \E token \in Tokens : LocalView(token)
  \/ \E file \in Files : S3UploadStart(file)
  \/ \E p \in ProcIds : S3UploadPdfStored(p)
  \/ \E p \in ProcIds : S3UploadJsonStored(p)
  \/ \E p \in ProcIds : S3UploadQrStored(p)
  \/ \E p \in ProcIds : S3UploadDone(p)
  \/ \E token \in Tokens : S3View(token)
  \/ \E fname \in StoredNames : StaticPdf(fname)
  \/ \E fname \in StoredNames : StaticQr(fname)
  \/ StaticMetadata

SpecStatic == Init /\ [][NextStatic]_vars

\* The filesystem accesses of server.js, for every stored filename.
InitPaths == Started /\ backend = "local" /\ load = 1 /\ faults = 0

NextPaths ==
  \/ \E filename \in Filenames : RemoveAccess(filename)
  \/ \E filename \in Filenames : PurgeAccess(filename)
  \/ \E filename \in Filenames : ViewAccess(filename)

SpecPaths == InitPaths /\ [][NextPaths]_vars

\* The admin gate, for every configuration and every authorization header.
NextAdmin ==
  \E adminUser \in AdminUsers : \E adminPass \in AdminPasses : \E hdr \in Headers :
    AdminRequest(adminUser, adminPass, hdr)

SpecAdmin == Init /\ [][NextAdmin]_vars

\* The server on a metadata.json that cannot be read, cannot be parsed or is
\* empty; one request at a time, no storage call fails.
InitRead ==
  /\ backend \in Backends
  /\ ttl \in TTLs
  /\ now = 0
  /\ metaFile \in BadDocuments
  /\ pdfStore = EmptyFn
  /\ qrStore = {}
  /\ mirror = EmptyFn
  /\ procs = << >>
  /\ nextToken = 1
  /\ uploaded = EmptyFn
  /\ deletedOk = {}
  /\ resp = NoResp
  /\ process = Running
  /\ load = 1
  /\ faults = MaxFaults

SpecRead == InitRead /\ [][Next]_vars

\* The writes of metadata.json step by step, and the process stopped in them.
NextWrite ==
  \/ \E data \in Documents : WriteOpen(data)
  \/ \E p \in ProcIds : WritePart(p)
  \/ \E p \in ProcIds : WriteRest(p)
  \/ \E p \in ProcIds : WriteInterrupted(p)

SpecWrite == InitPaths /\ [][NextWrite]_vars

\* The second program of server.js, one request at a time.
InitLegacy ==
  /\ backend = "legacy"
  /\ ttl \in TTLs
  /\ now = 0
  /\ metaFile = EmptyMeta
  /\ pdfStore = EmptyFn
  /\ qrStore = {}
  /\ mirror = EmptyFn
  /\ procs = << >>
  /\ nextToken = 1
  /\ uploaded = EmptyFn
  /\ deletedOk = {}
  /\ resp = NoResp
  /\ process = Running
  /\ load = 1
  /\ faults = 0

NextLegacy ==
  \/ Tick
  \/ \E file \in Files : LegacyMulter(file)
  \/ \E p \in ProcIds : LegacyUpload(p)

SpecLegacy == InitLegacy /\ [][NextLegacy]_vars

\* Uploads, the clock and the purge of both builds, one handler at a time. The
\* purge interval keeps firing whatever else is in flight, and Node resumes a
\* handler whose awaited call has returned.
NextTimer ==
  \/ Tick
  \/ \E file \in Files : LocalMulter(file)
  \/ \E p \in ProcIds : LocalUploadHandler(p)
  \/ \E p \in ProcIds : LocalUploadQr(p)
  \/ \E file \in Files : S3UploadStart(file)
  \/ \E p \in ProcIds : S3UploadPdfStored(p)
  \/ \E p \in ProcIds : S3UploadJsonStored(p)
  \/ \E p \in ProcIds : S3UploadQrStored(p)
  \/ \E p \in ProcIds : S3UploadDone(p)
  \/ LocalPurge
  \/ S3PurgeStart
  \/ \E p \in ProcIds : S3PurgePdfDone(p)
  \/ \E p \in ProcIds : S3PurgeQrDone(p)
  \/ \E p \in ProcIds : S3PurgeJsonDone(p)

SpecTimer ==
  /\ Init
  /\ [][NextTimer]_vars
  /\ SF_vars(LocalPurge)
  /\ SF_vars(S3PurgeStart)
  /\ WF_vars(\E p \in ProcIds : LocalUploadHandler(p))
  /\ WF_vars(\E p \in ProcIds : LocalUploadQr(p))
  /\ WF_vars(\E p \in ProcIds : S3UploadPdfStored(p))
  /\ WF_vars(\E p \in ProcIds : S3UploadJsonStored(p))
  /\ WF_vars(\E p \in ProcIds : S3UploadQrStored(p))
  /\ WF_vars(\E p \in ProcIds : S3UploadDone(p))
  /\ WF_vars(\E p \in ProcIds : S3PurgePdfDone(p))
  /\ WF_vars(\E p \in ProcIds : S3PurgeQrDone(p))
  /\ WF_vars(\E p \in ProcIds : S3PurgeJsonDone(p))

\* The process from app.listen to its exit: connections come and go, a signal
\* arrives. Node runs a due timer and a pending callback, and time passes;
\* nothing makes a client end its connection.
NextShutdown ==
  \/ Connect
  \/ Disconnect
  \/ \E signal \in {"SIGINT", "SIGTERM"} : Shutdown(signal)
  \/ GraceTick
  \/ ServerClosed
  \/ ForcedExit

SpecShutdown ==
  /\ Init
  /\ [][NextShutdown]_vars
  /\ WF_vars(GraceTick)
  /\ WF_vars(ServerClosed)
  /\ WF_vars(ForcedExit)

\* -------------------------------------------------------- properties
\* What GET /view/<token> answers now, the mirror being readable.
viewNow(token) ==
  IF backend = "local" THEN viewLocal(readMetadata, token, now)
                       ELSE viewS3(readMetadata, token, now, TRUE)

\* The entry the store holds for a token: the mirror's record where there is
\* one, then the local index's.
entryFound(token) ==
  IF backend = "s3" /\ token \in DOMAIN mirror THEN Some(mirror[token])
  ELSE IF token \in DOMAIN metaFile.byToken THEN Some(metaFile.byToken[token])
  ELSE Null

\* The tokens that own an entry of byFile.
fileTokens(meta) == {meta.byFile[f].token : f \in DOMAIN meta.byFile}

\* The token has an entry in one of the two indices.
carries(meta, token) == token \in DOMAIN meta.byToken \/ token \in fileTokens(meta)

\* The descriptive fields of two entries agree.
fieldsAgree(a, b) ==
  /\ a.originalName = b.originalName
  /\ a.size = b.size
  /\ a.mime = b.mime
  /\ a.createdAt = b.createdAt
  /\ a.expiresAt = b.expiresAt

\* Every entry persisted anywhere: both indices and the mirror.
persistedEntries ==
  {metaFile.byToken[k] : k \in DOMAIN metaFile.byToken}
    \cup {metaFile.byFile[f] : f \in DOMAIN metaFile.byFile}
    \cup {mirror[k] : k \in DOMAIN mirror}

\* The tokens GET /tokens lists now.
listedNow ==
  IF backend = "local" THEN listTokensLocal(readMetadata)
                       ELSE listTokensS3(readMetadata, s3ListTokenEntries(ListLimit))

\* A Delete or a Purge is at work on the token.
beingRemoved(token) ==
  \E p \in ProcIds : procs[p].kind \in {"delete", "purge"} /\ procs[p].token = token

\* C1: when uploads whose handlers overlap have all completed, every token
\* they returned is a key of the persisted byToken index and resolves: no
\* upload's entry is lost to another upload's write.
C1_ConcurrentCreateSafe ==
  procs = << >> =>
    \A token \in DOMAIN uploaded :
      token \in DOMAIN metaFile.byToken /\ viewNow(token).status # 404

\* C2: a view that serves a document for the token an upload returned, the
\* token not deleted, serves the bytes that were uploaded with that token.
C2_RoundTrip ==
  (/\ resp.op = "view"
   /\ resp.status \in {200, 302}
   /\ resp.token \in DOMAIN uploaded
   /\ resp.token \notin deletedOk
   /\ ~beingRemoved(resp.token))
    => resp.body = uploaded[resp.token]

\* C3: a view answers 404 when no entry is found; it answers 410 exactly when
\* the entry's expiresAt is non-null and earlier than now; it serves the
\* document otherwise, and so for an entry of a positive TTL at any time up to
\* createdAt + TTL.
C3_Trichotomy ==
  resp.op = "view" =>
    LET found == entryFound(resp.token) IN
      /\ found = Null => resp.status = 404
      /\ found # Null =>
           (resp.status = 410 <=>
              (found[1].expiresAt # Null /\ found[1].expiresAt[1] < now))
      /\ (found # Null /\ resp.status # 410) => resp.status \in {200, 302}
      /\ (found # Null /\ ttl > 0 /\ now <= found[1].createdAt + ttl)
           => resp.status \in {200, 302}

\* C4: once a Delete of a token has answered Ok, every later Delete of that
\* token answers 404.
C4_DeleteIdempotent ==
  [][(resp'.op = "delete" /\ resp'.token \in deletedOk) => resp'.status = 404]_vars

\* C5: a Purge that ran at time t over a store with N entries expired at t and
\* M others returns N, leaves byToken and byFile without exactly those N, and
\* the list that follows shows exactly the M others.
C5_PurgeCorrect ==
  [][resp'.op = "purge" =>
       LET all == DOMAIN metaFile.byToken \cup DOMAIN mirror
           N == {k \in all : isExpired(entryFound(k)[1], resp'.at)}
           M == all \ N
       IN
         /\ resp'.removed = Cardinality(N)
         /\ DOMAIN metaFile'.byToken = DOMAIN metaFile.byToken \ N
         /\ fileTokens(metaFile') = fileTokens(metaFile) \ N
         /\ listedNow' = M]_vars

\* C6: in every persisted metadata.json, t is a key of byToken with filename f
\* exactly when f is a key of byFile whose entry carries t, and the two
\* entries agree on originalName, size, mime, createdAt and expiresAt.
C6_IndicesConsistent ==
  /\ \A t \in DOMAIN metaFile.byToken :
       LET f == metaFile.byToken[t].filename IN
         /\ f \in DOMAIN metaFile.byFile
         /\ metaFile.byFile[f].token = t
         /\ fieldsAgree(metaFile.byToken[t], metaFile.byFile[f])
  /\ \A f \in DOMAIN metaFile.byFile :
       LET t == metaFile.byFile[f].token IN
         /\ t \in DOMAIN metaFile.byToken
         /\ metaFile.byToken[t].filename = f

\* C7: every persisted entry has expiresAt null or later than its createdAt,
\* whatever the configured TTL.
C7_ExpiresAfterCreated ==
  \A e \in persistedEntries : e.expiresAt = Null \/ e.expiresAt[1] > e.createdAt

\* C8: under a TTL of zero or less no view answers 410 and no purge removes
\* an entry.
C8_NonPositiveTtlNeverExpires ==
  ttl <= 0 =>
    /\ ~(resp.op = "view" /\ resp.status = 410)
    /\ ~(resp.op = "purge" /\ resp.removed > 0)

\* C9: a view, whatever it answers, leaves the metadata indices, the mirror
\* and the stored blobs as they were; an expired entry stays when resolved.
C9_ResolveFrame ==
  [][resp'.op = "view" => UNCHANGED << metaFile, mirror, pdfStore, qrStore >>]_vars

\* An entry of a positive TTL has expired, has been resolved (410) and is
\* still in the index.
C9_ExpiredResolved ==
  /\ ttl > 0
  /\ resp.op = "view"
  /\ resp.status = 410
  /\ resp.token \in DOMAIN metaFile.byToken

\* C10: a Delete that finds its token answers Ok and leaves no entry of the
\* token in byToken or byFile of the persisted metadata, and a Purge leaves no
\* entry of a token it found expired, whether or not the deletion of a blob
\* failed.
C10_RemovedDespiteBlobFailure ==
  [][/\ (resp'.op = "delete" /\ resp'.token \in DOMAIN metaFile.byToken)
          => resp'.status = 302
     /\ (resp'.op = "delete" /\ resp'.status = 302)
          => ~carries(metaFile', resp'.token)
     /\ resp'.op = "purge"
          => \A k \in expiredTokens(metaFile, resp'.at) : ~carries(metaFile', k)]_vars

\* The only token ever issued has been deleted with an Ok although the
\* deletion of its blob failed: the blob is still stored, its entry is gone.
C10_BlobFailureSwallowed ==
  /\ resp.op = "delete"
  /\ resp.status = 302
  /\ procs = << >>
  /\ nextToken = 2
  /\ faults > 0
  /\ pdfStore # EmptyFn
  /\ ~carries(metaFile, resp.token)
\* C11: an upload that fails at the QR image rolls nothing back: the step that
\* fails leaves the metadata, the mirror and the stored PDFs as they were, so
\* the entry the upload persisted stays in byToken and in byFile, it has no QR
\* key, and its token resolves as it did before the failure.
C11_QrFailureKeepsEntry ==
  [][\A token \in Tokens :
       (/\ resp'.op = "upload"
        /\ resp'.status = 500
        /\ resp'.stage \in {"qr", "putqr"}
        /\ resp'.token = token) =>
         /\ UNCHANGED << metaFile, mirror, pdfStore >>
         /\ token \in DOMAIN metaFile.byToken => token \in DOMAIN metaFile'.byToken
         /\ token \in fileTokens(metaFile) => token \in fileTokens(metaFile')
         /\ (backend = "s3" /\ token \in DOMAIN metaFile'.byToken) =>
              metaFile'.byToken[token].qrS3Key = Null
         /\ viewNow(token)' = viewNow(token)]_vars

\* An upload has failed at its QR image; its entry is in both indices and its
\* token resolves to the bytes that were uploaded.
C11_QrFailed ==
  /\ resp.op = "upload"
  /\ resp.status = 500
  /\ resp.stage \in {"qr", "putqr"}
  /\ resp.token \in DOMAIN metaFile.byToken
  /\ resp.token \in fileTokens(metaFile)
  /\ viewNow(resp.token).status \in {200, 302}
  /\ viewNow(resp.token).body = bufferOf(resp.token)
\* C12: an upload whose put of the PDF fails is not answered with success and
\* persists nothing: its token is in neither index nor in the mirror, and the
\* metadata, the mirror and the stored blobs are as they were.
C12_PdfFailureNoEntry ==
  [][\A token \in Tokens :
       (/\ resp'.op = "upload"
        /\ "stage" \in DOMAIN resp'
        /\ resp'.stage = "putpdf"
        /\ resp'.token = token) =>
         /\ resp'.status = 500
         /\ ~carries(metaFile', token)
         /\ token \notin DOMAIN mirror'
         /\ UNCHANGED << metaFile, mirror, pdfStore, qrStore >>]_vars

\* The put of an upload's PDF has failed: the upload has ended without a page
\* and without an entry.
C12_PdfFailed ==
  /\ resp.op = "upload"
  /\ resp.status = 500
  /\ resp.stage = "putpdf"
  /\ ~carries(metaFile, resp.token)
  /\ resp.token \notin DOMAIN mirror
\* C13: when a purge writes its result, every entry that is in the persisted
\* indices and was not among the entries the purge scanned (an upload persisted
\* it while the purge was in progress) is still in byToken and in byFile.
C13_PurgeKeepsNewEntries ==
  [][\A p \in ProcIds : \A token \in Tokens :
       (/\ At(p, "purge", "deljson")
        /\ resp'.op = "purge"
        /\ procs' = RemoveAt(procs, p)
        /\ token \notin procs[p].scanned
        /\ token \in DOMAIN metaFile.byToken
        /\ token \in fileTokens(metaFile)) =>
         /\ token \in DOMAIN metaFile'.byToken
         /\ token \in fileTokens(metaFile')]_vars
\* C14: on the S3 build, a token whose record is in the mirror and which is
\* absent from the local byToken index is found by every reader: /view does
\* not answer 404, /qr does not answer 404 when the record has a QR key, the
\* list holds the token, and the mirror read of Delete returns the record.
C14_ReadersFallBack ==
  \A token \in Tokens :
    (/\ backend = "s3"
     /\ token \in DOMAIN mirror
     /\ token \notin DOMAIN metaFile.byToken) =>
      /\ viewNow(token).status # 404
      /\ mirror[token].qrS3Key # Null => qrS3(readMetadata, token).status # 404
      /\ token \in listedNow
      /\ s3GetJson(token, TRUE) # Null
\* C15: the rows of every list, /tokens and /manage, are in the order of their
\* createdAt, newest first: no row stands above a newer one.
C15_ListsNewestFirst ==
  resp.op \in {"list", "manage"} =>
    \A i \in 1..Len(resp.rows) : \A j \in 1..Len(resp.rows) :
      i < j => resp.rows[i].createdAt >= resp.rows[j].createdAt

\* A path is the upload directory or lies below it.
insideRoot(p) ==
  Len(p) >= Len(uploadDir) /\ SubSeq(p, 1, Len(uploadDir)) = uploadDir

\* C16: no path that Delete, Purge or Resolve hands to the filesystem for an
\* entry lies outside the upload directory, whatever the stored filename.
C16_AccessInsideRoot ==
  resp.op = "access" => \A p \in resp.paths : insideRoot(p)

\* The user and the password a Basic header carries: the text up to its first
\* colon, and all that follows it.
basicUser(text) == SubSeq(text, 1, Min({k \in 1..Len(text) : text[k] = ":"}) - 1)
basicPass(text) == SubSeq(text, Min({k \in 1..Len(text) : text[k] = ":"}) + 1, Len(text))

\* C17: with both credentials configured an administrative request is let
\* through exactly when its Basic header carries the configured user and
\* password, colons in the password included; with a credential missing every
\* request is let through.
C17_AdminGate ==
  resp.op = "admin" =>
    IF resp.adminUser = << >> \/ resp.adminPass = << >>
      THEN resp.status = 200
      ELSE resp.status = 200 <=>
             /\ resp.hdr.scheme = "Basic"
             /\ HasColon(resp.hdr.text)
             /\ basicUser(resp.hdr.text) = resp.adminUser
             /\ basicPass(resp.hdr.text) = resp.adminPass

\* C18: on a metadata.json that is absent, empty or not parseable readMetadata
\* returns the two empty indices; no operation run from there ends in a thrown
\* handler, and an upload that succeeded has left a document with both indices.
C18_ReadAllNeverFails ==
  /\ metaFile \in BadDocuments => readMetadata = EmptyMeta
  /\ "status" \in DOMAIN resp => resp.status # 500
  /\ (resp.op = "upload" /\ resp.status = 200) =>
       DOMAIN metaFile = {"byFile", "byToken"}

\* An operation has been served from a document that could not be read.
C18_ServedFromBadDocument ==
  /\ metaFile \in BadDocuments
  /\ resp.op = "view"
  /\ resp.status = 404

\* C19: the document a process finds after a write of metadata.json was
\* interrupted is the complete document from before the write or the complete
\* new one.
C19_WriteAtomic ==
  resp.op = "restart" => resp.file \in {resp.old, resp.new}

\* The names of the files that are PDFs by type or suffix and within the limit.
acceptedNames == {f.originalname : f \in {g \in Files : upload(g)}}

\* C20: only input accepted as a PDF within the size limit is stored or
\* entered: every stored blob, every upload in progress and every persisted
\* entry is of an accepted file, and an upload of any other file is answered
\* with a client error.
C20_OnlyAcceptedStored ==
  /\ \A k \in DOMAIN pdfStore : k[2] \in acceptedNames
  /\ \A p \in ProcIds :
       (procs[p].kind = "upload" /\ "file" \in DOMAIN procs[p]) =>
         procs[p].file.originalname \in acceptedNames
  /\ \A e \in persistedEntries : e.originalName \in acceptedNames
  /\ (resp.op = "upload" /\ "file" \in DOMAIN resp /\ ~upload(resp.file)) =>
       resp.status = 400

\* C21: after SIGINT or SIGTERM the process exits in the end, also when the
\* connections in flight never end.
C21_ExitsAfterSignal ==
  (process.state = "closing") ~> (process.state = "exited")

\* The timer has exited the process while a connection was still open.
C21_ForcedWithOpenConnection ==
  /\ process.state = "exited"
  /\ process.conns > 0
  /\ resp.op = "exit"
  /\ resp.by = "timer"

\* C22: an entry of the local byToken index whose expiresAt has passed is in
\* the end gone from byToken and from byFile, the purge running again and again.
C22_ExpiredEventuallyPurged ==
  \A token \in Tokens :
    (/\ token \in DOMAIN metaFile.byToken
     /\ isExpired(metaFile.byToken[token], now))
      ~> (token \notin DOMAIN metaFile.byToken /\ token \notin fileTokens(metaFile))

\* A run of the purge has removed an entry that had expired under a positive TTL.
C22_PurgeRemovedExpired ==
  /\ resp.op = "purge"
  /\ resp.removed > 0
  /\ ttl > 0
  /\ metaFile.byToken = EmptyFn

\* C23: read-modify-write sequences on the metadata are serialised: when a
\* Delete of token A has overlapped an upload that creates token B, or another
\* Delete, and every handler has finished, metadata.json shows both
\* operations: A, whose Delete answered ok, is no key of byToken, and B, whose
\* upload answered 200 and that no Delete removed, is one.
C23_WritesSerialised ==
  procs = << >> =>
    \A A \in deletedOk : \A B \in DOMAIN uploaded \ deletedOk :
      /\ A \notin DOMAIN metaFile.byToken
      /\ B \in DOMAIN metaFile.byToken

\* C24: a run of Purge writes metadata.json once, after the scan of all the
\* entries: no step that leaves a purge in flight (between the removals of two
\* entries) changes metadata.json, and the step that ends the run writes the
\* metadata it read less every entry that had expired, however many they are.
C24_PurgeWritesOnce ==
  [][ /\ (\E p \in DOMAIN procs' : procs'[p].kind = "purge") => metaFile' = metaFile
      /\ resp'.op = "purge" =>
           metaFile' = purgeMeta(metaFile, expiredTokens(metaFile, resp'.at)) ]_vars

\* A purge of the S3 build has ended after removing two entries.
C24_PurgedTwo == backend = "s3" /\ resp.op = "purge" /\ resp.removed = 2

\* C25: the merged listing of the S3 build holds each token at most once, takes
\* the mirror's record for every token that is listed from the mirror and is
\* in the local index too, holds every local entry the mirror's listing lacks,
\* and has no more rows than the limit given to s3ListTokenEntries.
C25_MergedListing ==
  (backend = "s3" /\ resp.op \in {"list", "manage"}) =>
    LET rows == resp.rows
        listed == s3ListTokenEntries(ListLimit)
    IN
      /\ \A i, j \in 1..Len(rows) : rows[i].token = rows[j].token => i = j
      /\ \A e \in listed : resp.combined[e.token] = e
      /\ \A token \in DOMAIN metaFile.byToken : \E i \in 1..Len(rows) : rows[i].token = token
      /\ Len(rows) <= ListLimit

\* C26: reindex mints a new token for a stored PDF only when the PDF lacks
\* metadata: at the step in which a reindex run draws a fresh token for a
\* filename, no record of the mirror and no entry of the local byFile index is
\* for that filename, so a PDF that has a token keeps it.
C26_MintsOnlyWithoutMetadata ==
  [][ \A p \in DOMAIN procs' :
        ( /\ procs'[p].kind = "reindex"
          /\ procs'[p].pc = "putjson"
          /\ nextToken' = nextToken + 1
          /\ procs'[p].entry.token = nextToken )
        => /\ procs'[p].entry.filename \notin DOMAIN metaFile.byFile
           /\ \A k \in DOMAIN mirror : mirror[k].filename # procs'[p].entry.filename ]_vars

\* C27: the QR key of an entry is absent until the QR image is stored: every
\* entry of byFile, of byToken or of the mirror that carries qrS3Key names a QR
\* image that has been stored, also when the entry was written by reindex.
C27_QrKeyMeansQrStored ==
  backend = "s3" =>
    \A e \in persistedEntries : e.qrS3Key # Null => e.qrS3Key[1] \in qrStore

\* C28: once a Delete of a token has answered ok, the token is never again a
\* key of the persisted byToken index and GET /view/<token> never again
\* yields a document, whatever handlers were in flight when the delete ran.
C28_DeletedStaysDeleted ==
  \A token \in deletedOk :
    /\ token \notin DOMAIN metaFile.byToken
    /\ ~(viewNow(token).status = 302 /\ viewNow(token).body # "NoSuchKey")

\* C29: a Delete or a Purge of one entry leaves every other live entry intact:
\* no step of a Delete of token A, and no step of a Purge, takes from another
\* token B that stays in byToken (for a Purge: one that has not expired) the
\* byFile entry it owns, its PDF or its QR image, also when A and B were stored
\* under the same filename.
C29_OthersIntact ==
  [][ \A B \in DOMAIN metaFile.byToken \cap DOMAIN metaFile'.byToken :
        ( \/ /\ resp'.op = "delete"
             /\ resp'.token # B
          \/ \E p \in ProcIds : procs[p].kind = "delete" /\ procs[p].token # B
          \/ /\ resp'.op = "purge" \/ \E p \in ProcIds : procs[p].kind = "purge"
             /\ ~isExpired(metaFile.byToken[B], now) )
        => LET fn == metaFile.byToken[B].filename IN
             /\ (fn \in DOMAIN metaFile.byFile /\ metaFile.byFile[fn].token = B)
                  => (fn \in DOMAIN metaFile'.byFile /\ metaFile'.byFile[fn].token = B)
             /\ fn \in DOMAIN pdfStore => fn \in DOMAIN pdfStore'
             /\ fn \in qrStore => fn \in qrStore' ]_vars

\* C30: Purge and Resolve use one expiry predicate on one instant: at the step
\* in which a purge run reads the clock and picks the entries it removes, it
\* picks an entry of byToken if and only if GET /view/<token> answers 410 at
\* that instant; an entry whose expiresAt is that instant is neither.
C30_PurgeIffExpired ==
  [][ \A token \in DOMAIN metaFile.byToken :
        /\ (backend = "local" /\ resp'.op = "purge")
             => (token \notin DOMAIN metaFile'.byToken <=> viewNow(token).status = 410)
        /\ (backend = "s3" /\ \A p \in ProcIds : procs[p].kind # "purge")
             => /\ resp'.op = "purge"
                  => (token \notin DOMAIN metaFile'.byToken <=> viewNow(token).status = 410)
                /\ \A p \in DOMAIN procs' : procs'[p].kind = "purge"
                  => (token \in procs'[p].todo <=> viewNow(token).status = 410) ]_vars

\* A purge has run at the very instant an entry expires, and the entry is
\* still there and still resolves.
C30_KeptAtExpiryInstant ==
  /\ resp.op = "purge"
  /\ resp.at = now
  /\ \E token \in DOMAIN metaFile.byToken :
       /\ metaFile.byToken[token].expiresAt = Some(now)
       /\ viewNow(token).status \notin {404, 410}

\* C31: expiry is enforced on every route that sends a document: no answer of
\* /view/<token> and no answer of the /files mount carries the PDF of an entry
\* whose expiresAt has passed, and no route without credentials sends
\* metadata.json.
C31_ExpiryOnEveryRoute ==
  [][ /\ (resp'.op = "view" /\ resp'.status \in {200, 302})
           => \A token \in DOMAIN metaFile.byToken :
                resp'.token = token => ~isExpired(metaFile.byToken[token], now)
      /\ (resp'.op = "files" /\ resp'.status = 200)
           => /\ resp'.path # "metadata.json"
              /\ resp'.path = "pdf"
                   => \A token \in DOMAIN metaFile.byToken :
                        metaFile.byToken[token].filename = resp'.file
                          => ~isExpired(metaFile.byToken[token], now) ]_vars
====
